---- MODULE Spec2Model ----
(***************************************************************************)
(* Model of runbooktemplate.py, the Azure Automation runbook that resolves *)
(* five automation variables into os.environ and calls                     *)
(* munki_manifest_generator.main either for one device (webhook) or for    *)
(* the whole fleet.                                                        *)
(*                                                                         *)
(* Strings are sequences of tokens.  A token is one character, except for  *)
(* the literals "RequestBody:", "serial" and "other", which are kept whole *)
(* (no other token shares a character with them, so str.split(",") and     *)
(* str.replace("RequestBody:", "") act on token sequences exactly as they  *)
(* act on the characters).                                                 *)
(***************************************************************************)
EXTENDS Integers, Sequences, FiniteSets, TLC

\* ------------------------------------------------------------------ bounds
\* longest string value of a payload field, in tokens
MaxStr == 1
\* most fields of a generated payload object
MaxFields == 2

\* ------------------------------------------------------------------ tokens
COMMA == ","
REQUEST_BODY == "RequestBody:"
LBRACE == "{"
RBRACE == "}"
COLON == ":"
QUOTE == "\""
SERIAL == "serial"
OTHER_KEY == "other"

\* ------------------------------------------------- str.split / str.replace
\* index of the first token of s equal to c, 0 when there is none
RECURSIVE FindFrom(_, _, _)
FindFrom(s, c, k) ==
    IF k > Len(s) THEN 0
    ELSE IF s[k] = c THEN k
    ELSE FindFrom(s, c, k + 1)

\* sys.argv[1].split(","): every comma separates, "" gives [""]
RECURSIVE Split(_)
Split(s) ==
    LET k == FindFrom(s, COMMA, 1)
    IN  IF k = 0 THEN << s >>
        ELSE << SubSeq(s, 1, k - 1) >> \o Split(SubSeq(s, k + 1, Len(s)))

\* data[1].replace("RequestBody:", ""): every occurrence is removed
Replace(s) == SelectSeq(s, LAMBDA c : c # REQUEST_BODY)

\* ------------------------------------------------------------- json.loads
\* JSON values: a string, or an object held as its members in text order
JStr(s) == [t |-> "str", v |-> s]
JObj(members) == [t |-> "obj", v |-> members]
JNone == [t |-> "none", v |-> << >>]
Member(k, val) == [key |-> k, value |-> val]

ParseFail == [ok |-> FALSE, val |-> JNone, rest |-> << >>]
ParseOk(val, rest) == [ok |-> TRUE, val |-> val, rest |-> rest]

\* a string literal: from an opening quote to the next quote
ParseString(s) ==
    IF s = << >> \/ s[1] # QUOTE THEN ParseFail
    ELSE LET j == FindFrom(s, QUOTE, 2)
         IN  IF j = 0 THEN ParseFail
             ELSE ParseOk(JStr(SubSeq(s, 2, j - 1)), SubSeq(s, j + 1, Len(s)))

RECURSIVE ParseValue(_)
RECURSIVE ParseMembers(_, _)

\* members of an object after "{" or ",": "key" : value, then "," or "}"
ParseMembers(s, acc) ==
    LET k == ParseString(s)
    IN  IF ~k.ok \/ k.rest = << >> \/ k.rest[1] # COLON THEN ParseFail
        ELSE LET val == ParseValue(Tail(k.rest))
                 all == Append(acc, Member(k.val.v, val.val))
             IN  IF ~val.ok \/ val.rest = << >> THEN ParseFail
                 ELSE IF val.rest[1] = RBRACE
                      THEN ParseOk(JObj(all), Tail(val.rest))
                 ELSE IF val.rest[1] = COMMA
                      THEN ParseMembers(Tail(val.rest), all)
                 ELSE ParseFail

\* a value: a string literal or an object; anything else is no JSON
ParseValue(s) ==
    IF s = << >> THEN ParseFail
    ELSE IF s[1] = QUOTE THEN ParseString(s)
    ELSE IF s[1] = LBRACE
         THEN IF Len(s) >= 2 /\ s[2] = RBRACE
              THEN ParseOk(JObj(<< >>), SubSeq(s, 3, Len(s)))
              ELSE ParseMembers(Tail(s), << >>)
    ELSE ParseFail

\* json.loads(w_data): one value and nothing after it
JsonLoads(s) ==
    LET r == ParseValue(s)
    IN  IF r.ok /\ r.rest = << >> THEN r ELSE ParseFail

\* key in a dict built by json.loads
HasKey(obj, k) == \E n \in 1..Len(obj.v) : obj.v[n].key = k

\* dict[key]: the last member with that key wins
GetItem(obj, k) ==
    LET n == CHOOSE m \in 1..Len(obj.v) :
                 /\ obj.v[m].key = k
                 /\ \A l \in (m + 1)..Len(obj.v) : obj.v[l].key # k
    IN  obj.v[n].value

\* ------------------------------------------------ lines 13-18, as a function
\* the outcome of lines 14-18 on sys.argv[1]: the exception raised ("" when
\* none), whether json.loads was reached, and the values bound on the way
NoSerial == JNone

ParseWebhook(arg) ==
    LET data == Split(arg)
    IN  IF Len(data) < 2
        THEN [exc |-> "IndexError", loaded |-> FALSE,
              webhook |-> FALSE, serial |-> NoSerial]
        ELSE LET w_data == Replace(data[2])
                 webhook_data == JsonLoads(w_data)
             IN  IF ~webhook_data.ok
                 THEN [exc |-> "JSONDecodeError", loaded |-> TRUE,
                       webhook |-> FALSE, serial |-> NoSerial]
                 ELSE IF webhook_data.val.t # "obj"
                 THEN [exc |-> "TypeError", loaded |-> TRUE,
                       webhook |-> TRUE, serial |-> NoSerial]
                 ELSE IF ~HasKey(webhook_data.val, << SERIAL >>)
                 THEN [exc |-> "KeyError", loaded |-> TRUE,
                       webhook |-> TRUE, serial |-> NoSerial]
                 ELSE [exc |-> "", loaded |-> TRUE, webhook |-> TRUE,
                       serial |-> GetItem(webhook_data.val, << SERIAL >>)]

\* ------------------------------------------------------- program constants
\* the names with lines 22 and 23 exchanged
SecretNamesSwapped ==
    << "CLIENT_ID", "CONTAINER_NAME", "CLIENT_SECRET",
       "AZURE_STORAGE_CONNECTION_STRING", "TENANT_NAME" >>

\* the names of lines 21-25, in program order
SecretNames ==
    << "CLIENT_ID", "CLIENT_SECRET", "CONTAINER_NAME",
       "AZURE_STORAGE_CONNECTION_STRING", "TENANT_NAME" >>

\* the list literal with its two records exchanged
GroupsLiteralReversed ==
    << [id |-> "id_of_aad_group_2", name |-> "name_of_manifest_2",
        catalog |-> "catalog_name_2", type |-> "type_of_group_2"],
       [id |-> "id_of_aad_group_1", name |-> "name_of_manifest_1",
        catalog |-> "catalog_name_1", type |-> "type_of_group_1"] >>

\* the list literal of lines 27-40
GroupsLiteral ==
    << [id |-> "id_of_aad_group_1", name |-> "name_of_manifest_1",
        catalog |-> "catalog_name_1", type |-> "type_of_group_1"],
       [id |-> "id_of_aad_group_2", name |-> "name_of_manifest_2",
        catalog |-> "catalog_name_2", type |-> "type_of_group_2"] >>

\* --------------------------------------------------------------- the inputs
RECURSIVE SeqsUpTo(_, _)
SeqsUpTo(S, n) ==
    IF n = 0 THEN { << >> }
    ELSE LET shorter == SeqsUpTo(S, n - 1)
         IN  shorter \cup { Append(q, e) : q \in shorter, e \in S }

\* text of a JSON value, without white space
RECURSIVE Text(_)
RECURSIVE MembersText(_)
MembersText(members) ==
    IF members = << >> THEN << >>
    ELSE LET m == Head(members)
             one == << QUOTE >> \o m.key \o << QUOTE, COLON >> \o Text(m.value)
         IN  IF Len(members) = 1 THEN one
             ELSE one \o << COMMA >> \o MembersText(Tail(members))

Text(val) ==
    IF val.t = "str" THEN << QUOTE >> \o val.v \o << QUOTE >>
    ELSE << LBRACE >> \o MembersText(val.v) \o << RBRACE >>

StrVals == SeqsUpTo({ "A", REQUEST_BODY }, MaxStr)
Fields == { Member(k, JStr(s)) : k \in { << SERIAL >>, << OTHER_KEY >> }, s \in StrVals }
Payloads == { JObj(m) : m \in SeqsUpTo(Fields, MaxFields) } \cup { JStr(s) : s \in StrVals }

\* a complete payload text, or one cut short by its last token
Bodies == UNION { { Text(p), SubSeq(Text(p), 1, Len(Text(p)) - 1) } : p \in Payloads }

\* what the webhook hands over as sys.argv[1]:
\* <name>,RequestBody:<json>[,<header>], and what is left of it when malformed
Arguments ==
    { << "x", COMMA >> \o prefix \o body \o tail :
        prefix \in { << REQUEST_BODY >>, << >> },
        body \in Bodies,
        tail \in { << >>, << COMMA, "x" >> } }
    \cup { << >>, << "x" >> }

\* sys.argv: the script, then the argument when the run has one
ArgVectors == { << << "x" >> >> } \cup { << << "x" >>, a >> : a \in Arguments }

\* what get_automation_variable gives back: a value, or it raises
NotFound == "AutomationAssetNotFound"
SecretValues == { "v1", "v2" }
Unset == "<unset>"
Inherited == "<inherited>"
Names == { SecretNames[j] : j \in 1..Len(SecretNames) }

\* ------------------------------------------------------------------- state
VARIABLES
    sys_argv,   \* sys.argv
    pc,         \* the statement the interpreter is at
    next,       \* which of lines 21-25 is next, as an index into SecretNames
    webhook,    \* line 11, line 17
    serial,     \* line 18, NoSerial while unbound
    environ,    \* os.environ, restricted to the five names
    groups,     \* line 27, << >> while unbound
    exc,        \* the unhandled exception that ended the run, "" when none
    loads,      \* calls of json.loads so far
    lookups,    \* calls of get_automation_variable so far, with their results
    writes,     \* assignments to os.environ so far
    calls       \* calls of mmg.main so far, with their arguments

vars == << sys_argv, pc, next, webhook, serial, environ, groups, exc,
           loads, lookups, writes, calls >>

Init ==
    /\ sys_argv \in ArgVectors
    /\ pc = "argv"
    /\ next = 1
    /\ webhook = FALSE
    /\ serial = NoSerial
    /\ environ \in { [nm \in Names |-> Unset], [nm \in Names |-> Inherited] }
    /\ groups = << >>
    /\ exc = ""
    /\ loads = 0
    /\ lookups = << >>
    /\ writes = << >>
    /\ calls = << >>

\* lines 13-18 wrapped in try/except: a parse error is dropped and the run
\* goes on to the lookups
ParseArgumentCaught ==
    /\ pc = "argv"
    /\ Len(sys_argv) > 1
    /\ LET r == ParseWebhook(sys_argv[2])
       IN  /\ loads' = IF r.loaded THEN loads + 1 ELSE loads
           /\ webhook' = r.webhook
           /\ serial' = r.serial
           /\ exc' = exc
           /\ pc' = "variables"
    /\ UNCHANGED << sys_argv, next, environ, groups, lookups, writes, calls >>

\* lines 13-18 with an argument: parse it, or die of the first exception
ParseArgument ==
    /\ pc = "argv"
    /\ Len(sys_argv) > 1
    /\ LET r == ParseWebhook(sys_argv[2])
       IN  /\ loads' = IF r.loaded THEN loads + 1 ELSE loads
           /\ webhook' = r.webhook
           /\ serial' = r.serial
           /\ exc' = r.exc
           /\ pc' = IF r.exc = "" THEN "variables" ELSE "traceback"
    /\ UNCHANGED << sys_argv, next, environ, groups, lookups, writes, calls >>

\* line 13 without an argument: the block is skipped
NoArgument ==
    /\ pc = "argv"
    /\ Len(sys_argv) <= 1
    /\ pc' = "variables"
    /\ UNCHANGED << sys_argv, next, webhook, serial, environ, groups, exc,
                    loads, lookups, writes, calls >>

\* lines 21-25 with AutomationAssetNotFound caught and ignored
GetVariableSwallowed ==
    /\ pc = "variables"
    /\ \E result \in SecretValues \cup { NotFound } :
         LET nm == SecretNames[next]
         IN  /\ lookups' = Append(lookups, [name |-> nm, result |-> result])
             /\ IF result = NotFound
                THEN UNCHANGED << environ, writes >>
                ELSE /\ environ' = [environ EXCEPT ![nm] = result]
                     /\ writes' = Append(writes, [name |-> nm, value |-> result])
             /\ next' = next + 1
             /\ pc' = IF next = Len(SecretNames) THEN "groups" ELSE "variables"
             /\ exc' = exc
    /\ UNCHANGED << sys_argv, webhook, serial, groups, loads, calls >>

\* lines 21-25 publishing an empty default for a missing name before raising
GetVariableDefaulted ==
    /\ pc = "variables"
    /\ \E result \in SecretValues \cup { NotFound } :
         LET nm == SecretNames[next]
         IN  /\ lookups' = Append(lookups, [name |-> nm, result |-> result])
             /\ IF result = NotFound
                THEN /\ exc' = NotFound
                     /\ pc' = "traceback"
                     /\ environ' = [environ EXCEPT ![nm] = ""]
                     /\ UNCHANGED << writes, next >>
                ELSE /\ environ' = [environ EXCEPT ![nm] = result]
                     /\ writes' = Append(writes, [name |-> nm, value |-> result])
                     /\ next' = next + 1
                     /\ pc' = IF next = Len(SecretNames) THEN "groups" ELSE "variables"
                     /\ exc' = exc
    /\ UNCHANGED << sys_argv, webhook, serial, groups, loads, calls >>

\* lines 21-25 asking once more for a name that was not found
GetVariableRetried ==
    /\ pc = "variables"
    /\ \E result \in SecretValues \cup { NotFound } :
         LET nm == SecretNames[next]
             asked == \E j \in 1..Len(lookups) : lookups[j].name = nm
         IN  /\ lookups' = Append(lookups, [name |-> nm, result |-> result])
             /\ IF result = NotFound /\ asked
                THEN /\ exc' = NotFound
                     /\ pc' = "traceback"
                     /\ UNCHANGED << environ, writes, next >>
                ELSE IF result = NotFound
                THEN UNCHANGED << environ, writes, next, pc, exc >>
                ELSE /\ environ' = [environ EXCEPT ![nm] = result]
                     /\ writes' = Append(writes, [name |-> nm, value |-> result])
                     /\ next' = next + 1
                     /\ pc' = IF next = Len(SecretNames) THEN "groups" ELSE "variables"
                     /\ exc' = exc
    /\ UNCHANGED << sys_argv, webhook, serial, groups, loads, calls >>

\* one of lines 21-25: look the name up, then assign it into os.environ;
\* AutomationAssetNotFound is not caught
GetVariable ==
    /\ pc = "variables"
    /\ \E result \in SecretValues \cup { NotFound } :
         LET nm == SecretNames[next]
         IN  /\ lookups' = Append(lookups, [name |-> nm, result |-> result])
             /\ IF result = NotFound
                THEN /\ exc' = NotFound
                     /\ pc' = "traceback"
                     /\ UNCHANGED << environ, writes, next >>
                ELSE /\ environ' = [environ EXCEPT ![nm] = result]
                     /\ writes' = Append(writes, [name |-> nm, value |-> result])
                     /\ next' = next + 1
                     /\ pc' = IF next = Len(SecretNames) THEN "groups" ELSE "variables"
                     /\ exc' = exc
    /\ UNCHANGED << sys_argv, webhook, serial, groups, loads, calls >>

\* lines 27-40
BuildGroups ==
    /\ pc = "groups"
    /\ groups' = GroupsLiteral
    /\ pc' = "dispatch"
    /\ UNCHANGED << sys_argv, next, webhook, serial, environ, exc, loads,
                    lookups, writes, calls >>

\* lines 42-45 with the test of line 42 negated
DispatchInverted ==
    /\ pc = "dispatch"
    /\ calls' = Append(calls,
                       IF ~webhook
                       THEN [group_list |-> groups, with_serial |-> TRUE,
                             serial_number |-> serial, environ |-> environ]
                       ELSE [group_list |-> groups, with_serial |-> FALSE,
                             serial_number |-> NoSerial, environ |-> environ])
    /\ \E raised \in BOOLEAN :
         /\ exc' = IF raised THEN "GeneratorFailure" ELSE exc
         /\ pc' = IF raised THEN "traceback" ELSE "exit"
    /\ UNCHANGED << sys_argv, next, webhook, serial, environ, groups, loads,
                    lookups, writes >>

\* lines 42-45 without the else: the fleet-wide call follows the webhook call
DispatchFallThrough ==
    /\ pc = "dispatch"
    /\ LET single == [group_list |-> groups, with_serial |-> TRUE,
                      serial_number |-> serial, environ |-> environ]
           fleet == [group_list |-> groups, with_serial |-> FALSE,
                     serial_number |-> NoSerial, environ |-> environ]
       IN  calls' = IF webhook THEN calls \o << single, fleet >>
                    ELSE Append(calls, fleet)
    /\ \E raised \in BOOLEAN :
         /\ exc' = IF raised THEN "GeneratorFailure" ELSE exc
         /\ pc' = IF raised THEN "traceback" ELSE "exit"
    /\ UNCHANGED << sys_argv, next, webhook, serial, environ, groups, loads,
                    lookups, writes >>

\* lines 42-45: the call, which returns or raises; either way the script ends
Dispatch ==
    /\ pc = "dispatch"
    /\ calls' = Append(calls,
                       IF webhook
                       THEN [group_list |-> groups, with_serial |-> TRUE,
                             serial_number |-> serial, environ |-> environ]
                       ELSE [group_list |-> groups, with_serial |-> FALSE,
                             serial_number |-> NoSerial, environ |-> environ])
    /\ \E raised \in BOOLEAN :
         /\ exc' = IF raised THEN "GeneratorFailure" ELSE exc
         /\ pc' = IF raised THEN "traceback" ELSE "exit"
    /\ UNCHANGED << sys_argv, next, webhook, serial, environ, groups, loads,
                    lookups, writes >>

Next ==
    \/ ParseArgument
    \/ NoArgument
    \/ GetVariable
    \/ BuildGroups
    \/ Dispatch

Spec == Init /\ [][Next]_vars

TypeOK ==
    /\ pc \in { "argv", "variables", "groups", "dispatch", "exit", "traceback" }
    /\ next \in 1..(Len(SecretNames) + 1)
    /\ webhook \in BOOLEAN
    /\ loads \in 0..1

\* ------------------------------------------------------------ vocabulary
HasArgument == Len(sys_argv) > 1
Terminated == pc \in { "exit", "traceback" }
ParseErrors == { "IndexError", "JSONDecodeError", "TypeError", "KeyError" }
AllResolved == Len(writes) = 5
SomeLookupFailed == \E j \in 1..Len(lookups) : lookups[j].result = NotFound

\* the order and the table the specification fixes, written out
FixedOrder ==
    << "CLIENT_ID", "CLIENT_SECRET", "CONTAINER_NAME",
       "AZURE_STORAGE_CONNECTION_STRING", "TENANT_NAME" >>

GroupMapping ==
    << [id |-> "id_of_aad_group_1", name |-> "name_of_manifest_1",
        catalog |-> "catalog_name_1", type |-> "type_of_group_1"],
       [id |-> "id_of_aad_group_2", name |-> "name_of_manifest_2",
        catalog |-> "catalog_name_2", type |-> "type_of_group_2"] >>

\* the second comma-separated field is RequestBody: followed by a JSON object
\* that has a serial field
SecondField(arg) == Split(arg)[2]
WellFormed(arg) ==
    /\ Len(Split(arg)) >= 2
    /\ SecondField(arg) # << >>
    /\ SecondField(arg)[1] = REQUEST_BODY
    /\ LET json == JsonLoads(Tail(SecondField(arg)))
       IN  /\ json.ok
           /\ json.val.t = "obj"
           /\ HasKey(json.val, << SERIAL >>)
SerialOf(arg) == GetItem(JsonLoads(Tail(SecondField(arg))).val, << SERIAL >>)

\* the argument is <name>,RequestBody:<json>[,<more>] where <json> is a whole
\* JSON object; EnvelopePayload is that object
AfterPrefix(arg) == SubSeq(arg, FindFrom(arg, COMMA, 1) + 2, Len(arg))
PayloadEnd(arg) ==
    { j \in 1..Len(AfterPrefix(arg)) :
        /\ JsonLoads(SubSeq(AfterPrefix(arg), 1, j)).ok
        /\ j = Len(AfterPrefix(arg)) \/ AfterPrefix(arg)[j + 1] = COMMA }
IsEnvelope(arg) ==
    /\ FindFrom(arg, COMMA, 1) > 0
    /\ FindFrom(arg, COMMA, 1) < Len(arg)
    /\ arg[FindFrom(arg, COMMA, 1) + 1] = REQUEST_BODY
    /\ PayloadEnd(arg) # { }
EnvelopePayload(arg) ==
    JsonLoads(SubSeq(AfterPrefix(arg), 1, CHOOSE j \in PayloadEnd(arg) : TRUE)).val
HasExtraFields(arg) ==
    /\ IsEnvelope(arg)
    /\ EnvelopePayload(arg).t = "obj"
    /\ HasKey(EnvelopePayload(arg), << SERIAL >>)
    /\ \E m \in 1..Len(EnvelopePayload(arg).v) :
           EnvelopePayload(arg).v[m].key # << SERIAL >>

\* the argument is malformed in one of the three ways of section 7
Malformed(arg) ==
    \/ Len(Split(arg)) < 2
    \/ ~JsonLoads(Replace(SecondField(arg))).ok
    \/ JsonLoads(Replace(SecondField(arg))).val.t # "obj"
    \/ ~HasKey(JsonLoads(Replace(SecondField(arg))).val, << SERIAL >>)

\* ------------------------------------------------------------------ claims
\* C1: for every well-formed argument (second comma-separated field is
\* RequestBody: followed by JSON with serial = S) parsing succeeds with
\* webhook set and serial = S, every generator call carries serial_number = S
\* and the full GroupMapping, and a run whose five lookups succeeded has made
\* that call when it ends.
C1_SingleDeviceGetsExactSerial ==
    (HasArgument /\ WellFormed(sys_argv[2])) =>
        /\ pc # "argv" => /\ exc \notin ParseErrors
                          /\ webhook
                          /\ serial = SerialOf(sys_argv[2])
        /\ \A c \in 1..Len(calls) :
               /\ calls[c].with_serial
               /\ calls[c].serial_number = SerialOf(sys_argv[2])
               /\ calls[c].group_list = GroupMapping
        /\ (Terminated /\ AllResolved) => Len(calls) = 1

\* C2: the generator is called with a serial_number exactly in the runs that
\* were started with an argument; a run without an argument whose five
\* lookups succeeded ends having called it with the full GroupMapping and no
\* serial_number.
C2_ModeIffArgument ==
    /\ \A c \in 1..Len(calls) :
           /\ calls[c].with_serial <=> HasArgument
           /\ calls[c].group_list = GroupMapping
    /\ pc \in { "variables", "groups", "dispatch", "exit" } =>
           (webhook <=> HasArgument)
    /\ (~HasArgument /\ Terminated /\ AllResolved) =>
           /\ Len(calls) = 1
           /\ ~calls[1].with_serial

C2_Witness ==
    /\ ~HasArgument
    /\ pc = "exit"
    /\ Len(calls) = 1
    /\ ~calls[1].with_serial

\* C3: once any of the five lookups has failed, the generator has not been
\* called and never is.
C3_NoCallAfterFailedLookup ==
    SomeLookupFailed => calls = << >>

C3_Witness ==
    /\ HasArgument
    /\ webhook
    /\ pc = "traceback"
    /\ Len(lookups) = 3
    /\ lookups[3].result = NotFound

\* C4: a run whose argument is malformed ends in a parse error at its first
\* step, with no lookup made, no environment variable written and no
\* generator call.
C4_MalformedDiesBeforeSecrets ==
    (HasArgument /\ Malformed(sys_argv[2]) /\ pc # "argv") =>
        /\ pc = "traceback"
        /\ exc \in ParseErrors
        /\ lookups = << >>
        /\ writes = << >>
        /\ calls = << >>
        /\ \A nm \in Names : environ[nm] \in { Unset, Inherited }

C4_Witness ==
    /\ HasArgument
    /\ Malformed(sys_argv[2])
    /\ Len(Split(sys_argv[2])) >= 2
    /\ pc = "traceback"
    /\ exc = "JSONDecodeError"

\* C5: an argument <name>,RequestBody:<json> whose JSON object has fields
\* besides serial is accepted: no parse error, webhook set, serial = S.
C5_ExtraFieldsAccepted ==
    (HasArgument /\ HasExtraFields(sys_argv[2]) /\ pc # "argv") =>
        /\ exc \notin ParseErrors
        /\ webhook
        /\ serial = GetItem(EnvelopePayload(sys_argv[2]), << SERIAL >>)

\* C6: lookups happen in the fixed order, the value of each successful
\* lookup is in the environment variable of the same name before the next
\* lookup, and the generator is called with all five variables holding the
\* values the store returned.
C6_OrderedPublication ==
    /\ Len(lookups) <= 5
    /\ \A j \in 1..Len(lookups) : lookups[j].name = FixedOrder[j]
    /\ Len(writes) = Len(lookups) - (IF SomeLookupFailed THEN 1 ELSE 0)
    /\ \A j \in 1..Len(writes) :
           /\ writes[j] = [name |-> FixedOrder[j], value |-> lookups[j].result]
           /\ environ[FixedOrder[j]] = lookups[j].result
    /\ \A c \in 1..Len(calls) :
           /\ Len(lookups) = 5
           /\ \A j \in 1..5 :
                  /\ lookups[j].result \in SecretValues
                  /\ calls[c].environ[FixedOrder[j]] = lookups[j].result

C6_Witness ==
    /\ Len(calls) = 1
    /\ lookups[1].result # lookups[2].result
    /\ environ["CLIENT_ID"] = lookups[1].result
    /\ environ["TENANT_NAME"] = lookups[5].result

\* C7: the generator is called at most once, a run whose parsing and five
\* lookups succeeded has called it exactly once when it ends, the call ends
\* the run, and no step follows the call.
C7_ExactlyOneCall ==
    /\ [](/\ Len(calls) <= 1
          /\ (Terminated /\ AllResolved) => Len(calls) = 1
          /\ (pc \in { "groups", "dispatch" }) => AllResolved
          /\ calls # << >> => Terminated)
    /\ [][calls = << >>]_vars

C7_Witness ==
    /\ HasArgument
    /\ pc = "traceback"
    /\ exc = "GeneratorFailure"
    /\ Len(calls) = 1

\* C8: when the k-th lookup fails, the writes of the run are exactly the first
\* k-1 names with their resolved values, the failing and the later names keep
\* what they had, and nothing is looked up afterwards.
C8_FailedLookupFrame ==
    /\ [](exc = NotFound =>
            LET k == Len(lookups)
            IN  /\ k \in 1..5
                /\ lookups[k] = [name |-> FixedOrder[k], result |-> NotFound]
                /\ Len(writes) = k - 1
                /\ \A j \in 1..(k - 1) :
                       /\ writes[j] = [name |-> FixedOrder[j],
                                       value |-> lookups[j].result]
                       /\ lookups[j].result \in SecretValues
                       /\ environ[FixedOrder[j]] = lookups[j].result
                /\ \A j \in k..5 : environ[FixedOrder[j]] \in { Unset, Inherited })
    /\ [][exc # NotFound /\ (exc' = NotFound => environ' = environ)]_vars

C8_Witness ==
    /\ exc = NotFound
    /\ Len(lookups) = 4
    /\ environ["CONTAINER_NAME"] \in SecretValues
    /\ environ["AZURE_STORAGE_CONNECTION_STRING"] = Inherited

\* C9: every generator call, with or without a serial_number, receives the
\* same two records in the same order, with distinct ids.
C9_SameGroupMapping ==
    /\ groups \in { << >>, GroupMapping }
    /\ \A c \in 1..Len(calls) :
           /\ calls[c].group_list = GroupMapping
           /\ Len(calls[c].group_list) = 2
           /\ calls[c].group_list[1].id = "id_of_aad_group_1"
           /\ calls[c].group_list[1].id # calls[c].group_list[2].id

C9_Witness ==
    /\ Len(calls) = 1
    /\ calls[1].with_serial
    /\ calls[1].group_list[2].name = "name_of_manifest_2"

\* C10: no name is looked up twice, a run that called the generator looked
\* each of the five names up exactly once, json.loads runs at most once, an
\* exception puts the run in its final state, and no step leaves that state.
C10_NoRetry ==
    /\ [](/\ loads <= 1
          /\ \A j, l \in 1..Len(lookups) :
                 lookups[j].name = lookups[l].name => j = l
          /\ calls # << >> =>
                 \A nm \in Names :
                     Cardinality({ j \in 1..Len(lookups) : lookups[j].name = nm }) = 1
          /\ exc # "" <=> pc = "traceback")
    /\ [][pc # "traceback" /\ pc # "exit"]_vars

C10_Witness ==
    /\ pc = "traceback"
    /\ exc = NotFound
    /\ loads = 1
    /\ Len(lookups) = 2
====
